---- MODULE Spec2Model ----
(***************************************************************************)
(* Rank routes of the resume-ranking backend (backend/src/routes/rank.js)  *)
(* with the auth middleware, the multer temp upload, the RankResult model  *)
(* and the express error handler, and the resume upload and delete routes  *)
(* (backend/src/routes/resumes.js).  Requests run concurrently in slots; a *)
(* handler runs atomically between two awaits, as on the node event loop.  *)
(***************************************************************************)
EXTENDS Integers, Sequences, FiniteSets, TLC

VARIABLES req, disk, unlinkQ, db, now, load, resumes, vectors

vars == <<req, disk, unlinkQ, db, now, load, resumes, vectors>>

(* ---------------------------------------------------------------- bounds *)
\* sessions the store may hold before submissions stop being accepted
MaxSessions == 2
\* last value of the millisecond clock
MaxClock == 1
\* resume documents the store may hold before uploads stop being accepted
MaxResumes == 1

(* ------------------------------------------------------ program constants *)
\* multer limits.files / tmpUpload.array("resumes", 20)
FILES_LIMIT == 20
\* .limit(50) of GET /history
HISTORY_LIMIT == 50

(* ----------------------------------------------------------------- inputs *)
\* request slots; the workload is serial (one request at a time, every input),
\* concurrent (two requests interleaved at their awaits, fewer inputs), or
\* weights (one request at a time, every form of the weights field),
\* resumes (one request at a time: stored submissions and the resume routes),
\* or engine (one request at a time, every shape of a 200 body and of top_k)
Reqs == {"r1", "r2"}
Loads == {"serial", "concurrent", "weights", "resumes", "engine"}
Active == IF load = "concurrent" THEN Reqs ELSE {"r1"}
\* the set a workload draws an input from
Drawn(wide, narrow) == IF load = "serial" THEN wide ELSE narrow
Owners == {"A", "B"}
\* the JavaScript value undefined (a field the request does not carry)
Undefined == "undefined"
\* Authorization headers: missing, not Bearer, Bearer with a bad token, and
\* Bearer with a token signed for an owner
Headers == {Undefined, "Basic A", "Bearer expired", "Bearer A", "Bearer B"}
Routes == {"upload", "stored", "history", "detail"}
\* POST /api/resumes/upload and DELETE /api/resumes/:id
ResumeRoutes == {"resumeUpload", "resumeDelete"}
\* the routes a workload calls
Called == IF load = "resumes" THEN {"stored"} \cup ResumeRoutes ELSE Routes
JDs == {Undefined, "", "backend engineer"}
\* number of parts named resumes that a multipart body carries
FileCounts == {0, 1, FILES_LIMIT, FILES_LIMIT + 1}
\* the weights form field: absent, a full object, not JSON
WeightFields == {Undefined, "full", "{bad"}
\* the forms of the weights field: absent, empty, all four members, one
\* member, a negative member, a member that is no number ("abc")
WeightForms == {Undefined, "", "full", "partial", "negative", "nonnumeric"}

(* ------------------------------------------------------------ middleware *)
\* a decode that checks neither signature nor expiry
JwtDecode(token) == [ok |-> TRUE, id |-> token]

\* jwt.verify: the id claim of a token signed with SECRET, or a throw
JwtVerify(token) ==
  IF token \in Owners THEN [ok |-> TRUE, id |-> token] ELSE [ok |-> FALSE, id |-> "none"]

\* header.startsWith("Bearer ")
StartsWithBearer(h) == h \in {"Bearer expired", "Bearer A", "Bearer B"}

\* header.split(" ")[1]
TokenOf(h) ==
  CASE h = "Bearer A" -> "A"
    [] h = "Bearer B" -> "B"
    [] h = "Bearer expired" -> "expired"
    [] h = "Basic A" -> "A"
    [] OTHER -> Undefined

\* protect: [ok, id] with the 401 message when not ok
protect(h) ==
  IF h = Undefined \/ ~StartsWithBearer(h)
    THEN [ok |-> FALSE, id |-> "none", error |-> "No token provided."]
    ELSE IF JwtVerify(TokenOf(h)).ok
      THEN [ok |-> TRUE, id |-> JwtVerify(TokenOf(h)).id, error |-> ""]
      ELSE [ok |-> FALSE, id |-> "none", error |-> "Invalid or expired token."]

\* an Error object: status 0 stands for no status property
Err(status, message) == [status |-> status, message |-> message]

\* app.use((err, req, res, next) => res.status(err.status || 500).json(...))
ErrorHandler(err) ==
  [status |-> IF err.status # 0 THEN err.status ELSE 500,
   error |-> IF err.message # "" THEN err.message ELSE "Internal server error"]

(* ---------------------------------------------------------- scoring engine *)
\* records of the engine's rankings: each carries the engine-local reference
\* resume; scores are in hundredths
RecA ==
  [resume |-> "a.pdf", filename |-> "a.pdf", candidate_name |-> "Ann", rank |-> 1,
   total_score |-> 90, fit_category |-> "Excellent", summary |-> "sa",
   score_breakdown |-> 90, matched_skills |-> <<"go">>, missing_skills |-> <<>>,
   recommendations |-> <<>>]

RecB ==
  [resume |-> "b.pdf", filename |-> "b.pdf", candidate_name |-> "Bob", rank |-> 2,
   total_score |-> 40, fit_category |-> "Partial", summary |-> "sb",
   score_breakdown |-> 40, matched_skills |-> <<>>, missing_skills |-> <<"go">>,
   recommendations |-> <<"learn go">>]

\* a record as the engine's own page reads it: it carries score, which is no
\* path of rankItemSchema
RecScored ==
  [resume |-> "c.pdf", filename |-> "c.pdf", candidate_name |-> "Cy", rank |-> 1,
   total_score |-> 70, fit_category |-> "Good", summary |-> "sc",
   score_breakdown |-> 70, matched_skills |-> <<"go">>, missing_skills |-> <<>>,
   recommendations |-> <<>>, score |-> 70]

\* response bodies of the engine, by their text
OkBodies == {"<html>", "null", "two", "swapped"}
ErrBodies == {"", "{detail}"}
\* what fetch resolves to; status 0 stands for a rejected fetch (no connection)
EngineOutcomes ==
  {[status |-> 0, body |-> ""]}
    \cup {[status |-> 200, body |-> b] : b \in OkBodies}
    \cup {[status |-> s, body |-> b] : s \in {422, 500}, b \in ErrBodies}
NarrowOutcomes ==
  {[status |-> 0, body |-> ""], [status |-> 200, body |-> "two"],
   [status |-> 422, body |-> "{detail}"]}
\* 200 bodies by shape: the envelope, records with a member the schema does
\* not know, an envelope with members of its own named resultId and count
ShapeOutcomes ==
  {[status |-> 200, body |-> b] : b \in {"two", "scored", "named"}}

\* what a workload lets the engine answer
Outcomes == IF load = "engine" THEN ShapeOutcomes ELSE Drawn(EngineOutcomes, NarrowOutcomes)

\* a decoded JSON body: null, or an object with the members it has
\* (resultId 0 and count -1 stand for an absent member)
NoData ==
  [isNull |-> FALSE, hasRankings |-> FALSE, rankings |-> <<>>, count |-> -1, resultId |-> 0]

\* mlRes.json(): ok is FALSE when the body is not JSON
JsonOf(body) ==
  CASE body = "null" -> [ok |-> TRUE, data |-> [NoData EXCEPT !.isNull = TRUE]]
    [] body = "{detail}" -> [ok |-> TRUE, data |-> NoData]
    [] body = "two" ->
         [ok |-> TRUE,
          data |-> [NoData EXCEPT !.hasRankings = TRUE, !.rankings = <<RecA, RecB>>, !.count = 2]]
    [] body = "swapped" ->
         [ok |-> TRUE,
          data |-> [NoData EXCEPT !.hasRankings = TRUE, !.rankings = <<RecB, RecA>>, !.count = 2]]
    [] body = "scored" ->
         [ok |-> TRUE,
          data |-> [NoData EXCEPT !.hasRankings = TRUE, !.rankings = <<RecScored, RecB>>,
                                  !.count = 2]]
    [] body = "named" ->
         [ok |-> TRUE,
          data |-> [NoData EXCEPT !.hasRankings = TRUE, !.rankings = <<RecA, RecB>>,
                                  !.count = 7, !.resultId = 9]]
    [] OTHER -> [ok |-> FALSE, data |-> NoData]

\* a status test that takes every status for a success
AlwaysOk(status) == TRUE

\* mlRes.ok
mlResOk(status) == status >= 200 /\ status <= 299

(* ------------------------------------------------------------ RankResult *)
\* paths of rankItemSchema
RankItemPaths ==
  {"resume", "filename", "candidate_name", "rank", "total_score", "fit_category",
   "fit_description", "summary", "score_breakdown", "matched_skills", "missing_skills",
   "skill_match_pct", "experience_status", "experience_gap", "education",
   "recommendations"}

WeightNames == {"semantic", "skill", "experience", "education"}

\* a schema whose weights default to zero
ZeroWeights ==
  [semantic |-> 0, skill |-> 0, experience |-> 0, education |-> 0]

\* defaults of rankResultSchema.weights, in hundredths
DefaultWeights ==
  [semantic |-> 50, skill |-> 25, experience |-> 15, education |-> 10]

\* JSON.parse(weights): ok is FALSE when it throws
JsonParseWeights(w) ==
  CASE w = "full" ->
         [ok |-> TRUE,
          value |-> [semantic |-> 60, skill |-> 20, experience |-> 10, education |-> 10]]
    [] w = "partial" -> [ok |-> TRUE, value |-> [semantic |-> 70]]
    [] w = "negative" ->
         [ok |-> TRUE,
          value |-> [semantic |-> -10, skill |-> 60, experience |-> 30, education |-> 20]]
    [] w = "nonnumeric" ->
         [ok |-> TRUE, value |-> [skill |-> 20, experience |-> 10, education |-> 10]]
    [] OTHER -> [ok |-> FALSE, value |-> DefaultWeights]

\* the cast of every given member to Number succeeds ("abc" does not cast)
Castable(w) == w # "nonnumeric"

\* a schema that stores its defaults whatever is given
CastWeightsIgnored(given, obj) == [n \in WeightNames |-> DefaultWeights[n]]

\* weights as the schema stores them: a missing member takes its default
CastWeights(given, obj) ==
  [n \in WeightNames |->
     IF given /\ n \in DOMAIN obj THEN obj[n] ELSE DefaultWeights[n]]

\* a map that keeps the whole record
KeepRecord(rec) == rec

\* ({ resume: _r, ...rest }) => rest
StripResume(rec) == [k \in DOMAIN rec \ {"resume"} |-> rec[k]]

\* (data.rankings || []).map(strip)
cleanRankings(data) ==
  IF data.hasRankings
    THEN [i \in 1..Len(data.rankings) |-> StripResume(data.rankings[i])]
    ELSE <<>>

\* a subdocument keeps the members that are paths of the schema
CastItem(item) == [k \in DOMAIN item \cap RankItemPaths |-> item[k]]

\* the document RankResult.create builds; timestamps: true stamps it on the call
NewDoc(owner, jd, rankings, given, weightsObj) ==
  [_id |-> 0, owner |-> owner, jobDescription |-> jd,
   rankings |-> [i \in 1..Len(rankings) |-> CastItem(rankings[i])],
   weights |-> CastWeights(given, weightsObj), createdAt |-> now]

NoDoc ==
  [_id |-> 0, owner |-> "none", jobDescription |-> "", rankings |-> <<>>,
   weights |-> DefaultWeights, createdAt |-> 0]

(* --------------------------------------------------------------- requests *)
NoResp ==
  [status |-> 0, error |-> "", resultId |-> 0, count |-> -1, rankings |-> <<>>,
   list |-> <<>>, doc |-> <<>>]

\* no Resume document
NoResume == [_id |-> 0, owner |-> "none", filePath |-> 0, mlResumeId |-> 0]

Idle ==
  [pc |-> "idle", route |-> "none", hdr |-> Undefined, user |-> "none", jd |-> Undefined,
   parts |-> -1, nfiles |-> 0, weights |-> Undefined, topk |-> Undefined, id |-> 0, calls |-> 0,
   outcome |-> [status |-> 0, body |-> ""], doc |-> NoDoc, resp |-> NoResp, sid |-> 0,
   file |-> 0, rdoc |-> NoResume, creates |-> 0, sent |-> 0]

\* what a rejected call of the store throws
StoreError == Err(0, "MongoNetworkError mongodb://db:27017")

\* res.status(s).json({ error: m })
ErrorResp(s, m) == [NoResp EXCEPT !.status = s, !.error = m]

\* next(err)
NextErr(err) == ErrorResp(ErrorHandler(err).status, ErrorHandler(err).error)

\* a catch block that starts the request over: the engine is called again
CatchAndRetry(q, err) ==
  IF q.calls < 2
    THEN [q EXCEPT !.pc = "fetch", !.calls = @ + 1]
    ELSE [q EXCEPT !.pc = "done", !.sent = @ + 1, !.resp = NextErr(err)]

\* a catch block that swallows the error: nothing is sent
CatchSilently(q, err) == [q EXCEPT !.pc = "caught"]

\* catch (err) { next(err) }: the request q ends with the error handler's answer
Catch(q, err) == [q EXCEPT !.pc = "done", !.sent = @ + 1, !.resp = NextErr(err)]

\* a file list shared by the requests: whatever any of them has in tmp_rank
FilesOfAll(r) ==
  [i \in 1..req["r1"].nfiles |-> <<"r1", i>>] \o [i \in 1..req["r2"].nfiles |-> <<"r2", i>>]

\* the temporary files multer wrote for the request in tmp_rank (req.files)
FilesOf(r) == [i \in 1..req[r].nfiles |-> <<r, i>>]

\* a cleanup that queues nothing
UnlinkNone(files) == <<>>

\* a cleanup that deletes the first file only
UnlinkFirst(files) == IF files = <<>> THEN <<>> ELSE <<files[1]>>

\* files.forEach((f) => fs.unlink(f.path, () => {})): the unlinks queued
UnlinkAll(files) == files

\* submissions in flight
Submitting == {r \in Reqs : req[r].route \in {"upload", "stored"} /\ req[r].pc \notin {"idle", "done"}}

\* the uuids still unused: uuidv4() never repeats a name that a file, a
\* queued unlink, a document or a stored vector carries
Names == 1..(MaxResumes + 1)
FreeNames ==
  {k \in Names :
     /\ <<"uploads", k>> \notin disk
     /\ \A i \in 1..Len(unlinkQ) : unlinkQ[i] # <<"uploads", k>>
     /\ \A d \in resumes : d._id # k
     /\ k \notin vectors}

Init ==
  /\ req = [r \in Reqs |-> Idle]
  /\ disk = {}
  /\ unlinkQ = <<>>
  /\ db = <<>>
  /\ now = 0
  /\ load \in Loads
  /\ resumes = {}
  /\ vectors = {}

\* a request arrives and passes through protect
Protect(r) ==
  /\ r \in Active
  /\ req[r].pc = "idle"
  /\ \E route \in Called, h \in Drawn(Headers, {Undefined, "Bearer A"}) :
       /\ route \in {"upload", "stored"} => Len(db) + Cardinality(Submitting) < MaxSessions
       /\ route = "resumeUpload" => Cardinality(resumes) < MaxResumes /\ FreeNames # {}
       /\ req' = [req EXCEPT ![r] =
            IF protect(h).ok
              THEN [@ EXCEPT !.pc = IF route \in {"upload", "resumeUpload"}
                                      THEN "multer" ELSE "handler",
                             !.route = route, !.hdr = h, !.user = protect(h).id]
              ELSE [@ EXCEPT !.pc = "done", !.route = route, !.hdr = h,
                             !.sent = @ + 1, !.resp = ErrorResp(401, protect(h).error)]]
  /\ UNCHANGED <<disk, unlinkQ, db, now, load, resumes, vectors>>

\* tmpUpload.array("resumes", 20): the parts are written to tmp_rank; on an
\* error multer removes what it wrote and passes the error on
TmpUpload(r) ==
  /\ req[r].pc = "multer"
  /\ req[r].route = "upload"
  /\ \E n \in Drawn(FileCounts, {0, 1, FILES_LIMIT + 1}), pdf \in BOOLEAN,
        jd \in Drawn(JDs, {"", "backend engineer"}),
        w \in IF load = "weights" THEN WeightForms ELSE Drawn(WeightFields, {Undefined}) :
       IF n > FILES_LIMIT
         THEN /\ req' = [req EXCEPT ![r] =
                   [@ EXCEPT !.pc = "done", !.parts = n,
                             !.sent = @ + 1, !.resp = NextErr(Err(0, "Too many files"))]]
              /\ UNCHANGED disk
         ELSE IF ~pdf
           THEN /\ n >= 1
                /\ req' = [req EXCEPT ![r] =
                     [@ EXCEPT !.pc = "done", !.parts = n,
                               !.sent = @ + 1,
                               !.resp = NextErr(Err(0, "Only PDF files are allowed."))]]
                /\ UNCHANGED disk
           ELSE /\ req' = [req EXCEPT ![r] =
                     [@ EXCEPT !.pc = "handler", !.jd = jd, !.parts = n, !.nfiles = n,
                               !.weights = w]]
                /\ disk' = disk \cup {<<r, i>> : i \in 1..n}
  /\ UNCHANGED <<unlinkQ, db, now, load, resumes, vectors>>

\* !jd
Falsy(x) == x = Undefined \/ x = ""

\* an empty-upload test that never fires
NeverNoFiles(files) == FALSE

\* files.length === 0
NoFiles(files) == Len(files) = 0

\* POST /upload, lines 35-54: validation, then the form and the fetch
UploadHandler(r) ==
  /\ req[r].pc = "handler"
  /\ req[r].route = "upload"
  /\ IF Falsy(req[r].jd)
       THEN /\ req' = [req EXCEPT ![r] =
                 [@ EXCEPT !.pc = "done",
                           !.sent = @ + 1,
                           !.resp = ErrorResp(400, "jd (job description) is required.")]]
            /\ unlinkQ' = unlinkQ \o UnlinkAll(FilesOf(r))
       ELSE IF NoFiles(FilesOf(r))
         THEN /\ req' = [req EXCEPT ![r] =
                   [@ EXCEPT !.pc = "done",
                             !.sent = @ + 1,
                             !.resp = ErrorResp(400, "At least one resume file is required.")]]
              /\ UNCHANGED unlinkQ
         ELSE /\ req' = [req EXCEPT ![r] = [@ EXCEPT !.pc = "fetch", !.calls = @ + 1]]
              /\ UNCHANGED unlinkQ
  /\ UNCHANGED <<disk, db, now, load, resumes, vectors>>

\* res.json({ resultId: saved._id, ...data }): a member of data named
\* resultId takes the place of the session's id
SuccessResp(saved, data) ==
  [NoResp EXCEPT !.status = 200,
                 !.resultId = IF data.resultId # 0 THEN data.resultId ELSE saved._id,
                 !.count = data.count,
                 !.rankings = data.rankings]

\* POST /upload, lines 54-70: the fetch settles; the handler runs on to the
\* call of RankResult.create, or throws into catch and finally
UploadFetched(r) ==
  /\ req[r].pc = "fetch"
  /\ req[r].route = "upload"
  /\ \E o \in Outcomes :
       LET json == JsonOf(o.body)
           given == ~Falsy(req[r].weights)
           parsed == JsonParseWeights(req[r].weights)
           thrown ==
             CASE o.status = 0 -> Err(0, "connect ECONNREFUSED")
               [] ~mlResOk(o.status) -> Err(o.status, o.body)
               [] ~json.ok -> Err(0, "invalid json response body")
               [] json.data.isNull -> Err(0, "Cannot read properties of null")
               [] given /\ ~parsed.ok -> Err(0, "Unexpected token in JSON")
               [] OTHER -> Err(0, "")
           throws ==
             \/ o.status = 0
             \/ ~mlResOk(o.status)
             \/ ~json.ok
             \/ json.data.isNull
             \/ given /\ ~parsed.ok
       IN IF throws
            THEN /\ req' = [req EXCEPT ![r] = Catch([@ EXCEPT !.outcome = o], thrown)]
                 /\ unlinkQ' = unlinkQ \o UnlinkAll(FilesOf(r))
            ELSE /\ req' = [req EXCEPT ![r] =
                      [@ EXCEPT !.pc = "create", !.creates = @ + 1, !.outcome = o,
                                !.doc = NewDoc(req[r].user, req[r].jd,
                                               cleanRankings(json.data), given, parsed.value)]]
                 /\ UNCHANGED unlinkQ
  /\ UNCHANGED <<disk, db, now, load, resumes, vectors>>

\* the ObjectId the store gives the next document
NextId == Len(db) + 1

\* a store that keeps one session per owner: the new one takes the place of
\* the owner's previous one
CreateOrReplace(coll, doc) ==
  IF \E i \in 1..Len(coll) : coll[i].owner = doc.owner
    THEN [coll EXCEPT ![CHOOSE i \in 1..Len(coll) : coll[i].owner = doc.owner] = doc]
    ELSE Append(coll, doc)

\* RankResult.create(doc): the collection with the new document
Create(coll, doc) == Append(coll, doc)

\* POST /upload, lines 65-77: RankResult.create settles; response, then finally
UploadCreated(r) ==
  /\ req[r].pc = "create"
  /\ req[r].route = "upload"
  /\ \E ok \in BOOLEAN :
       IF ~Castable(req[r].weights)
         THEN /\ req' = [req EXCEPT ![r] =
                   Catch(@, Err(0, "RankResult validation failed"))]
              /\ UNCHANGED db
       ELSE IF ok
         THEN LET saved == [req[r].doc EXCEPT !._id = NextId]
              IN /\ db' = Create(db, saved)
                 /\ req' = [req EXCEPT ![r] =
                      [@ EXCEPT !.pc = "done", !.sid = saved._id,
                                !.sent = @ + 1,
                                !.resp = SuccessResp(saved, JsonOf(req[r].outcome.body).data)]]
         ELSE /\ req' = [req EXCEPT ![r] = Catch(@, StoreError)]
              /\ UNCHANGED db
  /\ unlinkQ' = unlinkQ \o UnlinkAll(FilesOf(r))
  /\ UNCHANGED <<disk, now, load, resumes, vectors>>

\* the top_k member of the JSON body of POST /stored
TopKs == {Undefined, "5"}
\* every form of top_k: absent, a positive integer, zero, negative, a fraction
TopKForms == {Undefined, "5", "0", "-1", "2.5"}

\* const { jd, top_k = 20 } = req.body; String(top_k)
TopKSent(k) == IF k = Undefined THEN "20" ELSE k

\* POST /stored, lines 88-96
StoredHandler(r) ==
  /\ req[r].pc = "handler"
  /\ req[r].route = "stored"
  /\ \E jd \in Drawn(JDs, {"", "backend engineer"}), k \in IF load = "engine" THEN TopKForms ELSE Drawn(TopKs, {Undefined}) :
       IF Falsy(jd)
         THEN req' = [req EXCEPT ![r] =
                [@ EXCEPT !.pc = "done", !.jd = jd, !.sent = @ + 1,
                                                    !.resp = ErrorResp(400, "jd is required.")]]
         ELSE req' = [req EXCEPT ![r] =
                [@ EXCEPT !.pc = "fetch", !.jd = jd, !.topk = TopKSent(k), !.calls = @ + 1]]
  /\ UNCHANGED <<disk, unlinkQ, db, now, load, resumes, vectors>>

\* POST /stored, lines 96-106
StoredFetched(r) ==
  /\ req[r].pc = "fetch"
  /\ req[r].route = "stored"
  /\ \E o \in Outcomes :
       LET json == JsonOf(o.body)
           thrown ==
             CASE o.status = 0 -> Err(0, "connect ECONNREFUSED")
               [] ~mlResOk(o.status) -> Err(0, o.body)
               [] ~json.ok -> Err(0, "invalid json response body")
               [] json.data.isNull -> Err(0, "Cannot read properties of null")
               [] OTHER -> Err(0, "")
           throws == o.status = 0 \/ ~mlResOk(o.status) \/ ~json.ok \/ json.data.isNull
       IN IF throws
            THEN req' = [req EXCEPT ![r] = Catch([@ EXCEPT !.outcome = o], thrown)]
            ELSE req' = [req EXCEPT ![r] =
                   [@ EXCEPT !.pc = "create", !.creates = @ + 1, !.outcome = o,
                             !.doc = NewDoc(req[r].user, req[r].jd, cleanRankings(json.data),
                                            FALSE, DefaultWeights)]]
  /\ UNCHANGED <<disk, unlinkQ, db, now, load, resumes, vectors>>

\* POST /stored, lines 102-110
StoredCreated(r) ==
  /\ req[r].pc = "create"
  /\ req[r].route = "stored"
  /\ \E ok \in BOOLEAN :
       IF ok
         THEN LET saved == [req[r].doc EXCEPT !._id = NextId]
              IN /\ db' = Create(db, saved)
                 /\ req' = [req EXCEPT ![r] =
                      [@ EXCEPT !.pc = "done", !.sid = saved._id,
                                !.sent = @ + 1,
                                !.resp = SuccessResp(saved, JsonOf(req[r].outcome.body).data)]]
         ELSE /\ req' = [req EXCEPT ![r] = Catch(@, StoreError)]
              /\ UNCHANGED db
  /\ UNCHANGED <<disk, unlinkQ, now, load, resumes, vectors>>

(* ---------------------------------------------------------------- history *)
\* RankResult.find({ owner }): positions in the collection
find(owner) == {i \in 1..Len(db) : db[i].owner = owner}

\* .sort({ createdAt: -1 }): every order of S that puts a later createdAt
\* first; documents with equal createdAt come in any order
SortCreatedDesc(S) ==
  {f \in [1..Cardinality(S) -> S] :
     /\ \A i, j \in 1..Cardinality(S) : i # j => f[i] # f[j]
     /\ \A i, j \in 1..Cardinality(S) : i < j => db[f[i]].createdAt >= db[f[j]].createdAt}

\* .limit(n)
Limit(f, n) == IF Len(f) > n THEN SubSeq(f, 1, n) ELSE f

ListItemPaths == {"rank", "filename", "total_score", "fit_category"}

\* a query without projection
SelectAll(d) == d

\* .select("jobDescription rankings.rank rankings.filename
\*          rankings.total_score rankings.fit_category createdAt")
Select(d) ==
  [_id |-> d._id, jobDescription |-> d.jobDescription,
   rankings |-> [i \in 1..Len(d.rankings) |->
                   [k \in DOMAIN d.rankings[i] \cap ListItemPaths |-> d.rankings[i][k]]],
   createdAt |-> d.createdAt]

\* GET /history
GetHistory(r) ==
  /\ req[r].pc = "handler"
  /\ req[r].route = "history"
  /\ \E ok \in BOOLEAN :
       IF ok
         THEN \E f \in SortCreatedDesc(find(req[r].user)) :
                req' = [req EXCEPT ![r] =
                  [@ EXCEPT !.pc = "done",
                            !.sent = @ + 1, !.resp = [NoResp EXCEPT
                               !.status = 200,
                               !.list = [i \in 1..Len(Limit(f, HISTORY_LIMIT)) |->
                                           Select(db[Limit(f, HISTORY_LIMIT)[i]])]]]]
         ELSE req' = [req EXCEPT ![r] =
                [@ EXCEPT !.pc = "done",
                          !.sent = @ + 1, !.resp = NextErr(StoreError)]]
  /\ UNCHANGED <<disk, unlinkQ, db, now, load, resumes, vectors>>

\* the :id parameter: 0 stands for a string that is no ObjectId, the others
\* for the ObjectId of that number
IdParams == 0..(MaxSessions + 1)

\* the cast of _id to ObjectId succeeds
IsObjectId(id) == id >= 1

\* a lookup by _id alone
findOneAnyOwner(id, owner) == {i \in 1..Len(db) : db[i]._id = id}

\* RankResult.findOne({ _id: id, owner }): the documents matching (none or one)
findOne(id, owner) == {i \in 1..Len(db) : db[i]._id = id /\ db[i].owner = owner}

\* GET /history/:id
GetHistoryId(r) ==
  /\ req[r].pc = "handler"
  /\ req[r].route = "detail"
  /\ \E id \in IdParams, ok \in BOOLEAN :
       LET result == findOne(id, req[r].user)
       IN req' = [req EXCEPT ![r] =
            [@ EXCEPT !.pc = "done", !.id = id,
                      !.sent = @ + 1, !.resp =
                        IF ~IsObjectId(id)
                          THEN NextErr(Err(0, "Cast to ObjectId failed"))
                          ELSE IF ~ok
                            THEN NextErr(StoreError)
                            ELSE IF result = {}
                              THEN ErrorResp(404, "Not found.")
                              ELSE [NoResp EXCEPT !.status = 200,
                                                  !.doc = <<db[CHOOSE i \in result : TRUE]>>]]]
  /\ UNCHANGED <<disk, unlinkQ, db, now, load, resumes, vectors>>

(* ---------------------------------------------------------- resume routes *)
\* what the engine does with POST /parse and with DELETE /store/:id
ParseOutcomes == {"parsed", "failed"}
DeleteOutcomes == {"removed", "failed"}

\* upload.single("resume"): a PDF part is written to uploads under a new uuid
ResumeMulter(r) ==
  /\ req[r].pc = "multer"
  /\ req[r].route = "resumeUpload"
  /\ \E sent \in BOOLEAN, pdf \in BOOLEAN :
       IF ~sent
         THEN /\ pdf
              /\ req' = [req EXCEPT ![r] = [@ EXCEPT !.pc = "handler", !.parts = 0]]
              /\ UNCHANGED disk
         ELSE IF ~pdf
           THEN /\ req' = [req EXCEPT ![r] =
                     [@ EXCEPT !.pc = "done", !.parts = 1,
                               !.sent = @ + 1,
                               !.resp = NextErr(Err(0, "Only PDF files are allowed."))]]
                /\ UNCHANGED disk
           ELSE /\ FreeNames # {}
                /\ LET k == CHOOSE n \in FreeNames : \A m \in FreeNames : n <= m
                   IN /\ req' = [req EXCEPT ![r] =
                           [@ EXCEPT !.pc = "handler", !.parts = 1, !.file = k]]
                      /\ disk' = disk \cup {<<"uploads", k>>}
  /\ UNCHANGED <<unlinkQ, db, now, load, resumes, vectors>>

\* POST /api/resumes/upload, lines 51-64
ResumeUploadHandler(r) ==
  /\ req[r].pc = "handler"
  /\ req[r].route = "resumeUpload"
  /\ req' = [req EXCEPT ![r] =
       IF req[r].file = 0
         THEN [@ EXCEPT !.pc = "done", !.sent = @ + 1,
                                       !.resp = ErrorResp(400, "No file uploaded.")]
         ELSE [@ EXCEPT !.pc = "parse"]]
  /\ UNCHANGED <<disk, unlinkQ, db, now, load, resumes, vectors>>

\* lines 63-70: the parse call settles, whichever way; then Resume.create
ResumeParsed(r) ==
  /\ req[r].pc = "parse"
  /\ \E o \in ParseOutcomes :
       /\ vectors' = IF o = "parsed" THEN vectors \cup {req[r].file} ELSE vectors
       /\ req' = [req EXCEPT ![r] =
            [@ EXCEPT !.pc = "rcreate",
                      !.rdoc = [_id |-> req[r].file, owner |-> req[r].user,
                                filePath |-> req[r].file, mlResumeId |-> req[r].file]]]
  /\ UNCHANGED <<disk, unlinkQ, db, now, load, resumes>>

\* lines 70-97: Resume.create settles
ResumeCreated(r) ==
  /\ req[r].pc = "rcreate"
  /\ \E ok \in BOOLEAN :
       IF ok
         THEN /\ resumes' = resumes \cup {req[r].rdoc}
              /\ req' = [req EXCEPT ![r] =
                   [@ EXCEPT !.pc = "done",
                             !.sent = @ + 1, !.resp = [NoResp EXCEPT !.status = 201,
                                                     !.resultId = req[r].rdoc._id]]]
              /\ UNCHANGED unlinkQ
         ELSE /\ req' = [req EXCEPT ![r] =
                   [@ EXCEPT !.pc = "done", !.sent = @ + 1, !.resp = NextErr(StoreError)]]
              /\ unlinkQ' = Append(unlinkQ, <<"uploads", req[r].file>>)
              /\ UNCHANGED resumes
  /\ UNCHANGED <<disk, db, now, load, vectors>>

\* Resume.findOne({ _id: id, owner }): the documents matching (none or one)
findOneResume(id, owner) == {d \in resumes : d._id = id /\ d.owner = owner}

\* DELETE /api/resumes/:id, lines 103-112
ResumeDeleteHandler(r) ==
  /\ req[r].pc = "handler"
  /\ req[r].route = "resumeDelete"
  /\ \E id \in {0} \cup Names, ok \in BOOLEAN :
       LET found == findOneResume(id, req[r].user)
       IN IF ~IsObjectId(id)
            THEN /\ req' = [req EXCEPT ![r] =
                      [@ EXCEPT !.pc = "done", !.id = id,
                                !.sent = @ + 1,
                                !.resp = NextErr(Err(0, "Cast to ObjectId failed"))]]
                 /\ UNCHANGED unlinkQ
            ELSE IF ~ok
              THEN /\ req' = [req EXCEPT ![r] =
                        [@ EXCEPT !.pc = "done", !.id = id, !.sent = @ + 1,
                                                            !.resp = NextErr(StoreError)]]
                   /\ UNCHANGED unlinkQ
              ELSE IF found = {}
                THEN /\ req' = [req EXCEPT ![r] =
                          [@ EXCEPT !.pc = "done", !.id = id,
                                    !.sent = @ + 1, !.resp = ErrorResp(404, "Resume not found.")]]
                     /\ UNCHANGED unlinkQ
                ELSE LET doc == CHOOSE d \in found : TRUE
                     IN /\ req' = [req EXCEPT ![r] =
                             [@ EXCEPT !.pc = "forget", !.id = id, !.rdoc = doc]]
                        /\ unlinkQ' = Append(unlinkQ, <<"uploads", doc.filePath>>)
  /\ UNCHANGED <<disk, db, now, load, resumes, vectors>>

\* lines 110-116: the engine's DELETE settles, whichever way; then deleteOne
ResumeForgotten(r) ==
  /\ req[r].pc = "forget"
  /\ \E o \in DeleteOutcomes :
       vectors' = IF o = "removed" THEN vectors \ {req[r].rdoc.mlResumeId} ELSE vectors
  /\ req' = [req EXCEPT ![r] = [@ EXCEPT !.pc = "rdelete"]]
  /\ UNCHANGED <<disk, unlinkQ, db, now, load, resumes>>

\* lines 116-120: doc.deleteOne() settles
ResumeDeleted(r) ==
  /\ req[r].pc = "rdelete"
  /\ \E ok \in BOOLEAN :
       IF ok
         THEN /\ resumes' = {d \in resumes : d._id # req[r].rdoc._id}
              /\ req' = [req EXCEPT ![r] =
                   [@ EXCEPT !.pc = "done",
                             !.sent = @ + 1, !.resp = [NoResp EXCEPT !.status = 200,
                                                     !.resultId = req[r].rdoc._id]]]
         ELSE /\ req' = [req EXCEPT ![r] =
                   [@ EXCEPT !.pc = "done", !.sent = @ + 1, !.resp = NextErr(StoreError)]]
              /\ UNCHANGED resumes
  /\ UNCHANGED <<disk, unlinkQ, db, now, load, vectors>>

(* ------------------------------------------------------------ environment *)
\* the callback of the oldest queued fs.unlink runs: the file is gone, an
\* error (no such file) is ignored
Unlink ==
  /\ unlinkQ # <<>>
  /\ disk' = disk \ {Head(unlinkQ)}
  /\ unlinkQ' = Tail(unlinkQ)
  /\ UNCHANGED <<req, db, now, load, resumes, vectors>>

\* a millisecond passes; the clock is kept only as far as it orders documents,
\* so it moves on once a document carries its present value
Tick ==
  /\ now < MaxClock
  /\ \/ \E i \in 1..Len(db) : db[i].createdAt = now
     \/ \E r \in Reqs : req[r].pc = "create" /\ req[r].doc.createdAt = now
  /\ now' = now + 1
  /\ UNCHANGED <<req, disk, unlinkQ, db, load, resumes, vectors>>

\* the files of request r that tmp_rank still holds
TmpFilesOf(r) == {p \in disk : p[1] = r}

\* unlinks queued by request r that have not run: of its temporary files,
\* or of the uploaded file of the resume it creates or deletes
PendingUnlinks(r) ==
  {i \in 1..Len(unlinkQ) :
     \/ unlinkQ[i][1] = r
     \/ req[r].route \in ResumeRoutes /\ unlinkQ[i] = <<"uploads", req[r].rdoc.filePath>>}

\* the answered request leaves; its slot takes the next one
Close(r) ==
  /\ req[r].pc = "done"
  /\ TmpFilesOf(r) = {}
  /\ PendingUnlinks(r) = {}
  /\ req' = [req EXCEPT ![r] = Idle]
  /\ UNCHANGED <<disk, unlinkQ, db, now, load, resumes, vectors>>

Next ==
  \/ \E r \in Reqs : Protect(r)
  \/ \E r \in Reqs : TmpUpload(r)
  \/ \E r \in Reqs : UploadHandler(r)
  \/ \E r \in Reqs : UploadFetched(r)
  \/ \E r \in Reqs : UploadCreated(r)
  \/ \E r \in Reqs : StoredHandler(r)
  \/ \E r \in Reqs : StoredFetched(r)
  \/ \E r \in Reqs : StoredCreated(r)
  \/ \E r \in Reqs : ResumeMulter(r)
  \/ \E r \in Reqs : ResumeUploadHandler(r)
  \/ \E r \in Reqs : ResumeParsed(r)
  \/ \E r \in Reqs : ResumeCreated(r)
  \/ \E r \in Reqs : ResumeDeleteHandler(r)
  \/ \E r \in Reqs : ResumeForgotten(r)
  \/ \E r \in Reqs : ResumeDeleted(r)
  \/ \E r \in Reqs : GetHistory(r)
  \/ \E r \in Reqs : GetHistoryId(r)
  \/ \E r \in Reqs : Close(r)
  \/ Unlink
  \/ Tick

Spec == Init /\ [][Next]_vars

\* what the server itself is bound to do: a handler that can take its next
\* step takes it, the store settles a call, a queued unlink runs. Nothing
\* makes the engine settle the fetch (no timeout, no abort signal), so the
\* two steps that wait for it carry no fairness.
Fairness ==
  /\ \A r \in Reqs :
       /\ WF_vars(TmpUpload(r))
       /\ WF_vars(UploadHandler(r))
       /\ WF_vars(UploadCreated(r))
       /\ WF_vars(StoredHandler(r))
       /\ WF_vars(StoredCreated(r))
       /\ WF_vars(GetHistory(r))
       /\ WF_vars(GetHistoryId(r))
       /\ WF_vars(ResumeMulter(r))
       /\ WF_vars(ResumeUploadHandler(r))
       /\ WF_vars(ResumeCreated(r))
       /\ WF_vars(ResumeDeleteHandler(r))
       /\ WF_vars(ResumeDeleted(r))
  /\ WF_vars(Unlink)

FairSpec == Spec /\ Fairness

(* ----------------------------------------------------------------- claims *)
Answered(r) == req[r].pc = "done"
Submission(r) == req[r].route \in {"upload", "stored"}
ClientError(status) == status >= 400 /\ status <= 499

\* the scoring call failed: no connection, a non-success status, or a body
\* that is not JSON
EngineFailed(o) ==
  o.status = 0 \/ o.status < 200 \/ o.status > 299 \/ ~JsonOf(o.body).ok

\* C1: an answered POST /upload whose queued deletions have all run has left
\* none of the files multer wrote for it in tmp_rank, whichever way it ended.
C1_NoTempFilesRemain ==
  \A r \in Reqs :
    (req[r].route = "upload" /\ Answered(r) /\ PendingUnlinks(r) = {})
      => TmpFilesOf(r) = {}

\* C1 witness: an upload that wrote files and failed in the engine has been
\* answered, its deletions have run and its files are gone.
C1_Witness ==
  \E r \in Reqs :
    /\ req[r].route = "upload" /\ Answered(r)
    /\ req[r].nfiles = FILES_LIMIT /\ req[r].calls = 1
    /\ req[r].resp.status = 500
    /\ PendingUnlinks(r) = {} /\ TmpFilesOf(r) = {}

\* C2: GET /history/:id with the id of a session of another owner is answered
\* as an id that names no session is: 404 "Not found." when the store answers
\* the query (the store's own failure otherwise), and never with the session.
C2_ForeignSessionIsNotFound ==
  \A r \in Reqs :
    (req[r].route = "detail" /\ Answered(r) /\ req[r].user \in Owners
       /\ IsObjectId(req[r].id)
       /\ \/ req[r].id > Len(db)
          \/ req[r].id <= Len(db) /\ db[req[r].id].owner # req[r].user)
      => /\ req[r].resp \in {ErrorResp(404, "Not found."), NextErr(StoreError)}
         /\ req[r].resp.doc = <<>>

\* C2 witness: owner B asked for a session created by owner A and got 404.
C2_Witness ==
  \E r \in Reqs :
    /\ req[r].route = "detail" /\ Answered(r) /\ req[r].user = "B"
    /\ req[r].id \in 1..Len(db) /\ db[req[r].id].owner = "A"
    /\ req[r].resp = ErrorResp(404, "Not found.")

\* position in the collection of the session owner o created last
LastCreatedBy(o) == CHOOSE i \in find(o) : \A j \in find(o) : j <= i

\* C3: whenever GET /history answers an owner who has sessions, the first
\* entry is the session that owner created last, and every entry is a session
\* of that owner.
C3_NewestSessionListedFirst ==
  [][\A r \in Reqs :
       (req[r].route = "history" /\ req[r].pc = "handler" /\ req'[r].pc = "done"
          /\ req'[r].resp.status = 200)
         => /\ \A i \in 1..Len(req'[r].resp.list) :
                 db[req'[r].resp.list[i]._id].owner = req[r].user
            /\ find(req[r].user) # {}
                 => /\ Len(req'[r].resp.list) >= 1
                    /\ req'[r].resp.list[1]._id = db[LastCreatedBy(req[r].user)]._id]_vars

\* C4: the store changes only by the create of a submission whose scoring call
\* succeeded; a submission whose scoring call failed is answered with an error
\* and no session.
C4_NoSessionOnEngineFailure ==
  [][/\ db' # db =>
          \E r \in Reqs :
            /\ Submission(r) /\ req[r].pc = "create" /\ req'[r].pc = "done"
            /\ ~EngineFailed(req[r].outcome)
            /\ db' = Append(db, [req[r].doc EXCEPT !._id = Len(db) + 1])
     /\ \A r \in Reqs :
          (Submission(r) /\ req[r].pc = "fetch" /\ req'[r].pc # "fetch"
             /\ EngineFailed(req'[r].outcome))
            => /\ req'[r].pc = "done" /\ req'[r].sid = 0
               /\ req'[r].resp.status >= 400
               /\ db' = db]_vars

\* C4 witness: a stored submission whose engine call failed has been answered
\* with an error and no session.
C4_Witness ==
  \E r \in Reqs :
    /\ req[r].route = "stored" /\ Answered(r) /\ req[r].calls = 1
    /\ EngineFailed(req[r].outcome)
    /\ req[r].sid = 0 /\ req[r].resp.status = 500

\* C5: an upload whose body carries zero documents never reaches the engine or
\* the store and is answered with a 4xx error, whatever jd and weights are.
C5_ZeroDocumentsRejected ==
  \A r \in Reqs :
    (req[r].route = "upload" /\ req[r].parts = 0)
      => /\ req[r].pc \in {"handler", "done"}
         /\ req[r].calls = 0 /\ req[r].sid = 0
         /\ Answered(r) => ClientError(req[r].resp.status)

\* C5 witness: an upload with a job description and no document was answered
\* 400.
C5_Witness ==
  \E r \in Reqs :
    /\ req[r].route = "upload" /\ Answered(r) /\ req[r].parts = 0
    /\ ~Falsy(req[r].jd)
    /\ req[r].resp = ErrorResp(400, "At least one resume file is required.")

\* the engine answered with a ranked envelope
EngineSucceeded(o) == ~EngineFailed(o) /\ ~JsonOf(o.body).data.isNull

\* C6: an answered upload that carried 21 documents got a 4xx error and no
\* session; one that carried exactly 20 PDF documents and a job description
\* succeeded when the engine and the store succeeded.
C6_FileCountBoundary ==
  \A r \in Reqs :
    (req[r].route = "upload" /\ Answered(r))
      => /\ req[r].parts = FILES_LIMIT + 1
              => ClientError(req[r].resp.status) /\ req[r].sid = 0
         /\ (req[r].parts = FILES_LIMIT /\ req[r].nfiles = FILES_LIMIT
               /\ ~Falsy(req[r].jd) /\ req[r].calls = 1
               /\ EngineSucceeded(req[r].outcome)
               /\ req[r].resp # NextErr(StoreError))
              => req[r].resp.status = 200 /\ req[r].sid # 0

\* the input of a submission is invalid: no job description, a document
\* count outside 1..20, or a weights field that is not JSON
InvalidInput(r) ==
  \/ Falsy(req[r].jd)
  \/ req[r].route = "upload" /\ (req[r].parts < 1 \/ req[r].parts > FILES_LIMIT)
  \/ ~Falsy(req[r].weights) /\ ~JsonParseWeights(req[r].weights).ok

\* C7: a submission answered with an error because its input is invalid (not
\* because the engine failed) has made no call to the engine.
C7_InvalidInputNeverReachesEngine ==
  \A r \in Reqs :
    (Submission(r) /\ Answered(r) /\ req[r].resp.status >= 400 /\ InvalidInput(r)
       /\ (req[r].calls = 0 \/ EngineSucceeded(req[r].outcome)))
      => req[r].calls = 0

\* C8: on both paths, a submission whose engine call ended with a non-success
\* status is answered with that status and the engine's body as the message.
C8_EngineFailurePropagated ==
  \A r \in Reqs :
    (Submission(r) /\ Answered(r) /\ req[r].calls = 1
       /\ req[r].outcome.status # 0 /\ ~(req[r].outcome.status \in 200..299))
      => /\ req[r].resp.status = req[r].outcome.status
         /\ req[r].resp.error = req[r].outcome.body

\* C9: the rankings returned by a successful submission are the items
\* persisted in its session; none carries the member resume.
C9_ReturnedRankingsNormalized ==
  \A r \in Reqs :
    (Submission(r) /\ Answered(r) /\ req[r].resp.status = 200)
      => /\ \A i \in 1..Len(req[r].resp.rankings) :
              "resume" \notin DOMAIN req[r].resp.rankings[i]
         /\ req[r].resp.rankings = db[req[r].sid].rankings

\* rank is 1, 2, ..., n along the sequence and total_score never increases
RanksInOrder(items) ==
  \A i \in 1..Len(items) :
    /\ items[i].rank = i
    /\ i < Len(items) => items[i].total_score >= items[i + 1].total_score

\* C10: the rankings returned by a successful submission, and those persisted
\* in its session, have rank 1..n in order and non-increasing total_score.
C10_RanksContiguousAndSorted ==
  \A r \in Reqs :
    (Submission(r) /\ Answered(r) /\ req[r].resp.status = 200)
      => /\ RanksInOrder(req[r].resp.rankings)
         /\ RanksInOrder(db[req[r].sid].rankings)

\* the weights field "full" and "partial" stand for, in hundredths
FullWeights == [semantic |-> 60, skill |-> 20, experience |-> 10, education |-> 10]
PartialWeights == [semantic |-> 70, skill |-> 25, experience |-> 15, education |-> 10]

\* C11: the session of a successful upload that supplied all four weights
\* holds exactly those four values, and GET /history/:id returns to its owner
\* the session as it is stored, so the weights come back unchanged.
C11_WeightsRoundTrip ==
  /\ \A r \in Reqs :
       (req[r].route = "upload" /\ Answered(r) /\ req[r].resp.status = 200
          /\ req[r].weights = "full")
         => /\ req[r].resp.resultId \in 1..Len(db)
            /\ db[req[r].resp.resultId].owner = req[r].user
            /\ db[req[r].resp.resultId].weights = FullWeights
  /\ \A r \in Reqs :
       (req[r].route = "detail" /\ Answered(r) /\ req[r].resp.status = 200)
         => /\ req[r].resp.doc = <<db[req[r].id]>>
            /\ db[req[r].id].owner = req[r].user

\* C11 witness: GET /history/:id has returned a session that was created
\* with all four weights supplied, and they are the supplied values.
C11_Witness ==
  \E r \in Reqs :
    /\ req[r].route = "detail" /\ Answered(r) /\ req[r].resp.status = 200
    /\ req[r].resp.doc[1].weights = FullWeights

\* the weights of the session a submission is creating or has created
WeightsOf(r) ==
  IF req[r].pc = "create" THEN req[r].doc.weights ELSE db[req[r].sid].weights

\* C12: a submission without weights (any stored submission, an upload
\* whose weights field is absent or empty) persists the four defaults; an
\* upload that supplies only semantic persists it with three defaults.
C12_DefaultWeights ==
  \A r \in Reqs :
    (Submission(r) /\ (req[r].pc = "create" \/ (Answered(r) /\ req[r].resp.status = 200)))
      => /\ (req[r].route = "stored" \/ Falsy(req[r].weights))
              => WeightsOf(r) =
                   [semantic |-> 50, skill |-> 25, experience |-> 15, education |-> 10]
         /\ (req[r].route = "upload" /\ req[r].weights = "partial")
              => WeightsOf(r) = PartialWeights

\* C12 witness: an upload that supplied only semantic has created its session.
C12_Witness ==
  \E r \in Reqs :
    /\ req[r].route = "upload" /\ Answered(r) /\ req[r].resp.status = 200
    /\ req[r].weights = "partial" /\ db[req[r].sid].weights = PartialWeights

\* a header that carries a token jwt.verify accepts
ValidToken(h) == h \in {"Bearer A", "Bearer B"}

\* C13: a rank request (upload, stored, list, detail) whose Authorization
\* header is missing, is not a Bearer header or carries a token that does not
\* verify is answered 401 at once, with no session data, and has written no
\* temporary file, made no engine call and created no session.
C13_UnauthenticatedHasNoEffect ==
  \A r \in Reqs :
    (req[r].pc # "idle" /\ ~ValidToken(req[r].hdr))
      => /\ Answered(r)
         /\ req[r].resp.status = 401
         /\ req[r].resp.rankings = <<>> /\ req[r].resp.list = <<>> /\ req[r].resp.doc = <<>>
         /\ req[r].resp.resultId = 0
         /\ req[r].nfiles = 0 /\ TmpFilesOf(r) = {} /\ PendingUnlinks(r) = {}
         /\ req[r].calls = 0
         /\ req[r].sid = 0 /\ req[r].doc = NoDoc

\* C13 witness: an upload with an expired token was answered 401 while the
\* store holds a session the caller could otherwise have read.
C13_Witness ==
  \E r \in Reqs :
    /\ req[r].route = "upload" /\ req[r].hdr = "Bearer expired"
    /\ Answered(r) /\ req[r].resp.status = 401
    /\ Len(db) >= 1

\* C14: when RankResult.create rejects after the engine answered, the caller
\* gets a server error whose message is not the store's error message, and
\* the request has created no session.
C14_StoreFailureIsGeneric ==
  [][\A r \in Reqs :
       (Submission(r) /\ req[r].pc = "create" /\ req'[r].pc = "done" /\ db' = db)
         => /\ req'[r].resp.status >= 500
            /\ req'[r].resp.error # StoreError.message
            /\ req'[r].sid = 0]_vars

\* C15: GET /history/:id by an authenticated caller, the store answering,
\* ends either 200 with a session the caller owns or 404, whatever the id.
C15_DetailFoundOrNotFound ==
  \A r \in Reqs :
    (req[r].route = "detail" /\ Answered(r) /\ ValidToken(req[r].hdr)
       /\ req[r].resp # NextErr(StoreError))
      => \/ req[r].resp.status = 404
         \/ /\ req[r].resp.status = 200
            /\ req[r].resp.doc[1].owner = req[r].user

\* what GET /history may not show of a ranking item, and what it shows
DetailOnlyPaths ==
  {"score_breakdown", "matched_skills", "missing_skills", "summary", "recommendations"}

\* C16: every entry of a GET /history answer carries no weights and, for
\* each ranking item, nothing but rank, filename, total_score and
\* fit_category; GET /history/:id answers with the weights and with items
\* that carry score_breakdown, matched_skills, missing_skills, summary and
\* recommendations.
C16_ListIsSummaryOnly ==
  \A r \in Reqs :
    /\ (req[r].route = "history" /\ Answered(r) /\ req[r].resp.status = 200)
         => \A e \in 1..Len(req[r].resp.list) :
              LET entry == req[r].resp.list[e]
              IN /\ "weights" \notin DOMAIN entry
                 /\ \A i \in 1..Len(entry.rankings) :
                      /\ DOMAIN entry.rankings[i] \subseteq
                           {"rank", "filename", "total_score", "fit_category"}
                      /\ DOMAIN entry.rankings[i] \cap DetailOnlyPaths = {}
    /\ (req[r].route = "detail" /\ Answered(r) /\ req[r].resp.status = 200)
         => /\ "weights" \in DOMAIN req[r].resp.doc[1]
            /\ \A i \in 1..Len(req[r].resp.doc[1].rankings) :
                 DetailOnlyPaths \subseteq DOMAIN req[r].resp.doc[1].rankings[i]

\* C16 witness: GET /history has listed a session that has ranking items.
C16_Witness ==
  \E r \in Reqs :
    /\ req[r].route = "history" /\ Answered(r) /\ req[r].resp.status = 200
    /\ \E e \in 1..Len(req[r].resp.list) :
         /\ Len(req[r].resp.list[e].rankings) >= 1
         /\ DetailOnlyPaths \subseteq DOMAIN db[req[r].resp.list[e]._id].rankings[1]

\* C17: an upload that passed validation and waits for the engine is
\* eventually answered with all its temporary files deleted, whether or not
\* the engine ever answers.
C17_UploadEventuallyAnswered ==
  \A r \in Reqs :
    (req[r].route = "upload" /\ req[r].pc = "fetch")
      ~> (Answered(r) /\ TmpFilesOf(r) = {})

\* the upload was answered 400 because the job description is missing
JdMissing(r) ==
  /\ req[r].route = "upload" /\ Answered(r)
  /\ req[r].resp.status = 400
  /\ req[r].resp.error = "jd (job description) is required."

\* C18 as stated: once the failure response for a missing job description
\* has been sent, none of the files received with the request is left.
C18_FilesGoneBeforeResponse ==
  \A r \in Reqs : JdMissing(r) => TmpFilesOf(r) = {}

\* C18: once the failure response for a missing job description has been
\* sent, every file received with the request is either gone or has its
\* unlink queued.
C18_DeletionQueuedBeforeResponse ==
  \A r \in Reqs :
    JdMissing(r) => \A f \in TmpFilesOf(r) : \E i \in PendingUnlinks(r) : unlinkQ[i] = f

\* C18 witness: the failure response has been sent while a received file is
\* still in tmp_rank, its unlink queued.
C18_Witness ==
  \E r \in Reqs :
    /\ JdMissing(r)
    /\ req[r].nfiles >= 1
    /\ TmpFilesOf(r) # {}
    /\ \A f \in TmpFilesOf(r) : \E i \in PendingUnlinks(r) : unlinkQ[i] = f

\* C19: no step of any route (upload, stored, list, detail, resume upload,
\* resume delete) and no step of the environment removes a session or
\* changes one: every session of the store is still there, at its place and
\* with the same owner, job description, weights and ranking items.
C19_SessionsImmutable ==
  [][/\ Len(db') >= Len(db)
     /\ \A i \in 1..Len(db) : db'[i] = db[i]]_vars

\* C19 witness: a resume was deleted while the store holds two sessions of
\* the caller, the second created after the first.
C19_Witness ==
  \E r \in Reqs :
    /\ req[r].route = "resumeDelete" /\ Answered(r) /\ req[r].resp.status = 200
    /\ Len(db) >= 2
    /\ db[1].owner = req[r].user /\ db[2].owner = req[r].user

\* C20: while an upload is between multer and its cleanup (validating,
\* waiting for the engine or for the store), every file multer wrote for it
\* is in tmp_rank and no unlink of any of them is queued, whatever the other
\* requests do; the unlinks in the queue are those of answered requests.
C20_CleanupIsolated ==
  /\ \A r \in Reqs :
       (req[r].route = "upload" /\ req[r].pc \in {"handler", "fetch", "create"})
         => /\ \A i \in 1..req[r].nfiles : <<r, i>> \in disk
            /\ PendingUnlinks(r) = {}
  /\ \A i \in 1..Len(unlinkQ) :
       unlinkQ[i][1] \in Reqs => Answered(unlinkQ[i][1])

\* C20 witness: one upload has been answered and its files deleted while
\* another is still forwarding its own file to the engine.
C20_Witness ==
  \E r, q \in Reqs :
    /\ r # q
    /\ req[r].route = "upload" /\ Answered(r) /\ req[r].nfiles >= 1
    /\ TmpFilesOf(r) = {} /\ PendingUnlinks(r) = {}
    /\ req[q].route = "upload" /\ req[q].pc = "fetch" /\ req[q].nfiles >= 1
    /\ TmpFilesOf(q) # {}

\* the engine's records a submission received, and the items of the session
\* it is creating or has created
RecordsOf(r) == JsonOf(req[r].outcome.body).data.rankings
ItemsOf(r) ==
  IF req[r].pc = "create" THEN req[r].doc.rankings ELSE db[req[r].sid].rankings
Persisting(r) ==
  Submission(r) /\ (req[r].pc = "create" \/ (Answered(r) /\ req[r].sid # 0))

\* C21 as stated: the session has one item per record, in the records'
\* order, without the reference resume and with every other member of the
\* record, unchanged.
C21_EveryFieldCopied ==
  \A r \in Reqs :
    Persisting(r)
      => /\ Len(ItemsOf(r)) = Len(RecordsOf(r))
         /\ \A i \in 1..Len(RecordsOf(r)) :
              /\ "resume" \notin DOMAIN ItemsOf(r)[i]
              /\ \A k \in DOMAIN RecordsOf(r)[i] \ {"resume"} :
                   k \in DOMAIN ItemsOf(r)[i] /\ ItemsOf(r)[i][k] = RecordsOf(r)[i][k]

\* C21: the session has one item per record, in the records' order, without
\* the reference resume; every other member of the record that is a path of
\* rankItemSchema is in the item unchanged, and a member that is no path of
\* the schema is not in the item.
C21_SchemaFieldsCopied ==
  \A r \in Reqs :
    Persisting(r)
      => /\ Len(ItemsOf(r)) = Len(RecordsOf(r))
         /\ \A i \in 1..Len(RecordsOf(r)) :
              /\ "resume" \notin DOMAIN ItemsOf(r)[i]
              /\ \A k \in (DOMAIN RecordsOf(r)[i] \ {"resume"}) \cap RankItemPaths :
                   k \in DOMAIN ItemsOf(r)[i] /\ ItemsOf(r)[i][k] = RecordsOf(r)[i][k]
              /\ \A k \in DOMAIN RecordsOf(r)[i] \ RankItemPaths :
                   k \notin DOMAIN ItemsOf(r)[i]

\* C21 witness: a session was created from records of which the first
\* carries score; its two items are there in the records' order.
C21_Witness ==
  \E r \in Reqs :
    /\ Submission(r) /\ Answered(r) /\ req[r].sid # 0
    /\ "score" \in DOMAIN RecordsOf(r)[1]
    /\ Len(ItemsOf(r)) = 2
    /\ ItemsOf(r)[1].filename = "c.pdf" /\ ItemsOf(r)[2].filename = "b.pdf"

\* C22: each of the four weights of every session in the store is at least
\* zero.
C22_WeightsNonNegative ==
  \A i \in 1..Len(db) : \A n \in WeightNames : db[i].weights[n] >= 0

\* the texts of top_k that denote an integer of at least 1
PositiveIntegers == {"5", "20"}

\* C23: a POST /stored that has called the engine sent it a top_k that is an
\* integer of at least 1.
C23_TopKAtLeastOne ==
  \A r \in Reqs :
    (req[r].route = "stored" /\ req[r].calls >= 1) => req[r].topk \in PositiveIntegers

\* C24: a submission calls the engine at most once and calls
\* RankResult.create at most once, whatever fails; a step adds at most one
\* session, and the request that adds it had created none before.
C24_AtMostOneCallAndCreate ==
  [][/\ \A r \in Reqs : req'[r].calls <= 1 /\ req'[r].creates <= 1
     /\ Len(db') <= Len(db) + 1
     /\ Len(db') = Len(db) + 1
          => \E r \in Reqs :
               /\ Submission(r) /\ req[r].pc = "create" /\ req[r].sid = 0
               /\ req'[r].pc = "done" /\ req'[r].sid = Len(db')]_vars

\* C24 witness: the store rejected the one create of a submission; the
\* request was answered with one engine call and one create made.
C24_Witness ==
  \E r \in Reqs :
    /\ Submission(r) /\ Answered(r)
    /\ req[r].calls = 1 /\ req[r].creates = 1 /\ req[r].sid = 0
    /\ req[r].resp.status = 500

\* the next step of a rank request: of multer, of a handler, or of a handler
\* once the call it awaits has returned or thrown
RankStep(r) ==
  \/ TmpUpload(r)
  \/ UploadHandler(r) \/ UploadFetched(r) \/ UploadCreated(r)
  \/ StoredHandler(r) \/ StoredFetched(r) \/ StoredCreated(r)
  \/ GetHistory(r) \/ GetHistoryId(r)

\* C25: an authenticated request to a rank route has been sent no response
\* while it is being handled and exactly one once it has ended, and while
\* it is being handled it always has a next step to take: no path ends
\* without a response and none sends a second one.
C25_ExactlyOneResponse ==
  \A r \in Reqs :
    (req[r].route \in Routes /\ ValidToken(req[r].hdr))
      => /\ req[r].sent <= 1
         /\ Answered(r) <=> req[r].sent = 1
         /\ Answered(r) => req[r].resp.status # 0
         /\ ~Answered(r) => req[r].resp = NoResp /\ ENABLED RankStep(r)

\* C25 witness: an upload whose weights field is not JSON threw after the
\* engine had answered and was answered once, by the error handler.
C25_Witness ==
  \E r \in Reqs :
    /\ req[r].route = "upload" /\ ValidToken(req[r].hdr) /\ Answered(r)
    /\ req[r].weights = "{bad" /\ req[r].calls = 1
    /\ req[r].sent = 1 /\ req[r].resp.status = 500

\* C26: the response of a successful submission carries as resultId the id
\* of the session the request created and as count the number of that
\* session's ranking items.
C26_ResponseNamesItsSession ==
  \A r \in Reqs :
    (Submission(r) /\ Answered(r) /\ req[r].resp.status = 200)
      => /\ req[r].sid \in 1..Len(db)
         /\ req[r].resp.resultId = req[r].sid
         /\ req[r].resp.count = Len(db[req[r].sid].rankings)

\* C27: once DELETE /api/resumes/:id has ended in an error or in 404 and
\* the unlinks it queued have run, the resume of that id, if the store
\* lists one, still has its file in uploads; and a listed resume lacks its
\* file only while a delete of it is under way.
C27_DeleteAllOrNothing ==
  /\ \A r \in Reqs :
       (req[r].route = "resumeDelete" /\ Answered(r) /\ req[r].resp.status # 200
          /\ PendingUnlinks(r) = {})
         => \A d \in resumes :
              d._id = req[r].id => <<"uploads", d.filePath>> \in disk
  /\ \A d \in resumes :
       <<"uploads", d.filePath>> \notin disk
         => \E r \in Reqs :
              /\ req[r].route = "resumeDelete"
              /\ req[r].pc \in {"forget", "rdelete"}
              /\ req[r].rdoc._id = d._id

====
